---- MODULE Spec2Model ----
(***************************************************************************)
(* A model of sw.js, the CricStreamZone service worker: the cache manager  *)
(* (install / activate / fetch / sync) and the notification dispatcher     *)
(* (push / notificationclick / message).                                   *)
(*                                                                         *)
(* The hosting runtime is modelled as far as the handlers depend on it:    *)
(*  - the worker lifecycle parsed -> installing -> installed ->            *)
(*    activating -> activated; functional events (fetch, sync, push,       *)
(*    notificationclick) are delivered to the activated worker only;       *)
(*  - every promise callback is a step of its own, so that asynchronous    *)
(*    work of different handlers interleaves;                              *)
(*  - Cache Storage is an ordered list of named buckets; caches.match      *)
(*    searches them in creation order;                                     *)
(*  - requests are GET requests, identified by their URL.                  *)
(***************************************************************************)
EXTENDS Integers, Sequences, FiniteSets, TLC

----------------------------------------------------------------------------
(* Bounds of the model *)

\* number of fetch and sync events delivered to the worker
MaxEvents == 2
\* number of push, notificationclick and message events delivered to it
MaxNotifEvents == 3

----------------------------------------------------------------------------
(* Constants of the program *)

CACHE_NAME == "cricstreamzone-v1.0.6"

urlsToCache ==
  << "/",
     "/index.html",
     "/manifest.json",
     "https://cdnjs.cloudflare.com/ajax/libs/bodymovin/5.7.4/lottie.min.js",
     "https://i.postimg.cc/3rPWWckN/icon-192.png",
     "https://i.postimg.cc/BvWg87Rd/videocam-24dp-E3-E3-E3-FILL0-wght400-GRAD0-opsz24.png",
     "https://i.postimg.cc/K8JDvvxs/live-tv-24dp-E3-E3-E3-FILL0-wght400-GRAD0-opsz24.png",
     "https://i.postimg.cc/YC472jwd/radio-24dp-E3-E3-E3-FILL0-wght400-GRAD0-opsz24.png" >>

\* the cache key of the background sync result
MatchesDataKey == "matches-data"

\* the endpoint the sync handler fetches
SyncEndpoint ==
  "https://script.google.com/macros/s/AKfycbxzx4xcwEGidoxEd7BQshkR9FKHjK5o0p8ukNY4NsKNR0EsShY7eV3MUxA2iXz1V8bmHg/exec"

SyncTag == "background-sync-matches"

----------------------------------------------------------------------------
(* Strings as the code inspects them: String.prototype.includes *)

Range(s) == { s[i] : i \in 1..Len(s) }

\* s.includes(sub), on sequences of characters
Includes(s, sub) ==
  \E i \in 1..(Len(s) - Len(sub) + 1) : SubSeq(s, i, i + Len(sub) - 1) = sub

ScriptGoogleCom ==
  << "s","c","r","i","p","t",".","g","o","o","g","l","e",".","c","o","m" >>

ApiMarker == << "a","p","i" >>

----------------------------------------------------------------------------
(* The requests of the model: URLs the pages of the application fetch.    *)
(* ParseURL is new URL(event.request.url): hostname and pathname, as       *)
(* character sequences. The worker is served from LocationHost.            *)

LocationHost == << "c","r","i","c",".","a","p","p" >>

FetchURLs ==
  { "/",
    "/api/matches",
    "https://i.postimg.cc/3rPWWckN/icon-192.png",
    "https://script.google.com/macros/s/ID/exec" }

ParseURL(url) ==
  CASE url = "/" ->
         [hostname |-> LocationHost, pathname |-> << "/" >>]
    [] url = "/api/matches" ->
         [hostname |-> LocationHost,
          pathname |-> << "/","a","p","i","/","m","a","t","c","h","e","s" >>]
    [] url = "https://i.postimg.cc/3rPWWckN/icon-192.png" ->
         [hostname |-> << "i",".","p","o","s","t","i","m","g",".","c","c" >>,
          pathname |-> << "/","3","r","P","W","W","c","k","N","/",
                          "i","c","o","n","-","1","9","2",".","p","n","g" >>]
    [] url = "https://script.google.com/macros/s/ID/exec" ->
         [hostname |-> ScriptGoogleCom,
          pathname |-> << "/","m","a","c","r","o","s","/","s","/","I","D","/",
                          "e","x","e","c" >> ]

\* a URL without scheme and host is relative to the worker's origin
SameOrigin(url) ==
  url \in { "/", "/index.html", "/manifest.json", "/api/matches" }

----------------------------------------------------------------------------
(* Responses *)

\* the contents a server can answer with: two versions of every resource
Bodies == { 1, 2 }

\* "no response": undefined in the code
NoResponse == [status |-> 0, type |-> "none", body |-> 0]

\* what fetch() can resolve with for a request: a same-origin request gets a
\* basic response (or an opaque redirect, for a navigation that the server
\* redirects), a cross-origin request a cors or an opaque one; a 200 response
\* carries either version of the resource, a 404 response the error page
NetResponses(url) ==
  IF SameOrigin(url)
    THEN { [status |-> 200, type |-> "basic", body |-> b] : b \in Bodies }
         \cup { [status |-> 404, type |-> "basic", body |-> 0],
                [status |-> 0, type |-> "opaqueredirect", body |-> 0] }
    ELSE { [status |-> 200, type |-> "cors", body |-> b] : b \in Bodies }
         \cup { [status |-> 404, type |-> "cors", body |-> 0],
                [status |-> 0, type |-> "opaque", body |-> 0] }

\* what cache.addAll stores for a manifest URL: addAll rejects unless every
\* response is ok, so the stored ones have status 200
ManifestResponse(url, b) ==
  [status |-> 200, type |-> IF SameOrigin(url) THEN "basic" ELSE "cors", body |-> b]

\* new Response(JSON.stringify(data)) of the sync handler
SyncResponse(b) == [status |-> 200, type |-> "default", body |-> b]

----------------------------------------------------------------------------
(* Cache Storage *)

\* buckets left behind by earlier versions of the worker
StaleNames == { "cricstreamzone-v1.0.5", "cricstreamzone-v1.0.4" }

\* the bucket of the version that follows this one: the same file with
\* CACHE_NAME bumped, as every change of the manifest requires
NewerName == "cricstreamzone-v1.0.7"

BucketNames == { CACHE_NAME } \cup StaleNames \cup { NewerName }

Keys == Range(urlsToCache) \cup FetchURLs \cup { MatchesDataKey }

EmptyBucket == [k \in Keys |-> NoResponse]

\* what an earlier version left in its bucket: its own copy of the app shell
StaleBucket ==
  [k \in Keys |-> IF k \in Range(urlsToCache) THEN ManifestResponse(k, 0) ELSE NoResponse]

VARIABLES
  cacheNames,   \* the names of the existing buckets, in creation order
  buckets,      \* bucket name -> key -> stored response
  worker,       \* the lifecycle state of this worker
  install,      \* the install handler
  activate,     \* the activate handler
  fetches,      \* the fetch handlers, one record per fetch event
  syncs         \* the sync handlers, one record per sync event

cacheVars == << cacheNames, buckets, worker, install, activate, fetches, syncs >>

VARIABLES
  visible,      \* the notifications on screen
  windows,      \* the window clients of the worker's origin, in matchAll order
  timers,       \* the pending setTimeout callbacks of the worker
  pushes,       \* the push handlers, one record per push event
  clicks,       \* the notificationclick handlers, one record per click
  messages,     \* the message handlers, one record per message event
  skipWaitingCalls  \* calls of self.skipWaiting() by the message handler

notifVars == << visible, windows, timers, pushes, clicks, messages, skipWaitingCalls >>

vars == << cacheVars, notifVars >>

Exists(name) == name \in Range(cacheNames)

\* caches.open(name): the bucket is created when it does not exist
OpenNames(name) == IF Exists(name) THEN cacheNames ELSE Append(cacheNames, name)

\* cache.put(key, response) on the bucket called name
Put(name, key, response) ==
  [buckets EXCEPT ![name] = [@ EXCEPT ![key] = response]]

\* caches.match(request): the first bucket, in creation order, that holds the
\* key answers; undefined when none does
RECURSIVE MatchIn(_, _)
MatchIn(names, key) ==
  IF names = << >> THEN NoResponse
  ELSE IF buckets[Head(names)][key] # NoResponse THEN buckets[Head(names)][key]
  ELSE MatchIn(Tail(names), key)

CachesMatch(key) == MatchIn(cacheNames, key)

\* caches.delete(name)
RECURSIVE Without(_, _)
Without(names, name) ==
  IF names = << >> THEN << >>
  ELSE IF Head(names) = name THEN Without(Tail(names), name)
  ELSE << Head(names) >> \o Without(Tail(names), name)

----------------------------------------------------------------------------
(* install *)

InstallIdle ==
  [pc |-> "idle", promise |-> "none", fetched |-> FALSE, skipWaiting |-> FALSE]

\* the runtime dispatches install to the freshly parsed worker
InstallEvent ==
  /\ worker = "parsed"
  /\ worker' = "installing"
  /\ install' = [InstallIdle EXCEPT !.pc = "open", !.promise = "pending"]
  /\ UNCHANGED << cacheNames, buckets, activate, fetches, syncs >>
  /\ UNCHANGED notifVars

\* caches.open(CACHE_NAME) resolves
InstallOpen ==
  /\ install.pc = "open"
  /\ cacheNames' = OpenNames(CACHE_NAME)
  /\ install' = [install EXCEPT !.pc = "addAll"]
  /\ UNCHANGED << buckets, worker, activate, fetches, syncs >>
  /\ UNCHANGED notifVars

\* what the .catch callback of the install chain settles the promise with:
\* it logs and returns undefined, so the promise is fulfilled
InstallCatch == "fulfilled"

\* the runtime's reaction to the settled waitUntil promise
InstallResult(promise) == IF promise = "fulfilled" THEN "installed" ELSE "redundant"

\* cache.addAll(urlsToCache) settles: it stores every response, or none when
\* any fetch fails; then skipWaiting, or the catch callback
InstallAddAll ==
  /\ install.pc = "addAll"
  /\ \E failed \in SUBSET Range(urlsToCache), b \in Bodies :
       IF failed = {}
         THEN /\ buckets' = [buckets EXCEPT ![CACHE_NAME] =
                   [k \in Keys |-> IF k \in Range(urlsToCache)
                                     THEN ManifestResponse(k, b) ELSE @[k]]]
              /\ install' = [pc |-> "done", promise |-> "fulfilled",
                             fetched |-> TRUE, skipWaiting |-> TRUE]
              /\ worker' = InstallResult("fulfilled")
         ELSE /\ buckets' = buckets
              /\ install' = [pc |-> "done", promise |-> InstallCatch,
                             fetched |-> FALSE, skipWaiting |-> FALSE]
              /\ worker' = InstallResult(InstallCatch)
  /\ UNCHANGED << cacheNames, activate, fetches, syncs >>
  /\ UNCHANGED notifVars

----------------------------------------------------------------------------
(* activate *)

ActivateIdle == [pc |-> "idle", promise |-> "none", toDelete |-> {}, deleted |-> {}]

\* the runtime activates the installed worker (at once after skipWaiting,
\* else when the pages of the previous version are gone)
ActivateEvent ==
  /\ worker = "installed"
  /\ worker' = "activating"
  /\ activate' = [ActivateIdle EXCEPT !.pc = "keys", !.promise = "pending"]
  /\ UNCHANGED << cacheNames, buckets, install, fetches, syncs >>
  /\ UNCHANGED notifVars

\* a variant that forgets the comparison with CACHE_NAME
OldCachesAll(names) == names

\* the names the activate handler deletes, out of the names caches.keys() gave
OldCaches(names) == { n \in names : n # CACHE_NAME }

\* caches.keys() resolves; the deletions are started
ActivateKeys ==
  /\ activate.pc = "keys"
  /\ activate' = [activate EXCEPT !.pc = "delete",
                                  !.toDelete = OldCaches(Range(cacheNames))]
  /\ UNCHANGED << cacheNames, buckets, worker, install, fetches, syncs >>
  /\ UNCHANGED notifVars

\* one caches.delete(cacheName) completes
ActivateDelete ==
  /\ activate.pc = "delete"
  /\ \E n \in activate.toDelete :
       /\ cacheNames' = Without(cacheNames, n)
       /\ buckets' = [buckets EXCEPT ![n] = EmptyBucket]
       /\ activate' = [activate EXCEPT !.toDelete = @ \ {n}, !.deleted = @ \cup {n}]
  /\ UNCHANGED << worker, install, fetches, syncs >>
  /\ UNCHANGED notifVars

\* Promise.all resolves, then clients.claim(); the runtime marks the worker
\* activated
ActivateClaim ==
  /\ activate.pc = "delete"
  /\ activate.toDelete = {}
  /\ activate' = [activate EXCEPT !.pc = "done", !.promise = "fulfilled"]
  /\ worker' = "activated"
  /\ UNCHANGED << cacheNames, buckets, install, fetches, syncs >>
  /\ UNCHANGED notifVars

----------------------------------------------------------------------------
(* fetch *)

\* the classification of the fetch handler: network-first for these
IsDynamic(url) ==
  \/ Includes(ParseURL(url).hostname, ScriptGoogleCom)
  \/ Includes(ParseURL(url).pathname, ApiMarker)

\* a variant that looks at the status only
CacheableAnyType(response) == response # NoResponse /\ response.status = 200

\* the responses the cache-first branch stores
Cacheable(response) ==
  ~ (response = NoResponse \/ response.status # 200 \/ response.type # "basic")

\* A fetch handler. pc: the promise callback that runs next; settled: the
\* promise given to respondWith; resp: the response it resolved with;
\* netState, net: the handler's call of fetch() and what it resolved with;
\* wrote: what the handler put into the bucket.
FetchStart(url) ==
  [url |-> url, pc |-> IF IsDynamic(url) THEN "net" ELSE "match",
   settled |-> "pending", resp |-> NoResponse,
   netState |-> IF IsDynamic(url) THEN "pending" ELSE "none",
   net |-> NoResponse, wrote |-> NoResponse]

\* a variant that stores a response only when its status is 200
DynamicThenOkOnly(f, response) ==
  [f EXCEPT !.netState = "resolved", !.net = response,
            !.settled = "response", !.resp = response,
            !.pc = IF response.status = 200 THEN "put" ELSE "done"]

\* a variant that stores successful same-origin responses only, as the
\* cache-first branch does
DynamicThenFiltered(f, response) ==
  [f EXCEPT !.netState = "resolved", !.net = response,
            !.settled = "response", !.resp = response,
            !.pc = IF response.status = 200 /\ response.type = "basic"
                     THEN "put" ELSE "done"]

\* network-first: the .then callback of fetch(event.request). The cache
\* write is started and not awaited; the response is returned
DynamicThen(f, response) ==
  [f EXCEPT !.netState = "resolved", !.net = response,
            !.settled = "response", !.resp = response, !.pc = "put"]

\* network-first: fetch rejected, the .catch callback calls caches.match
DynamicCatch(f) == [f EXCEPT !.netState = "rejected", !.pc = "fallback"]

\* a variant that answers with an offline page when nothing is stored
DynamicFallbackOffline(f, m) ==
  [f EXCEPT !.settled = "response",
            !.resp = IF m # NoResponse THEN m
                     ELSE [status |-> 503, type |-> "default", body |-> 0],
            !.pc = "done"]

\* network-first: caches.match of the .catch callback resolved with m; a
\* respondWith promise that resolves with undefined is a network error for
\* the requester
DynamicFallback(f, m) ==
  [f EXCEPT !.settled = IF m # NoResponse THEN "response" ELSE "undefined",
            !.resp = m, !.pc = "done"]

\* a variant that revalidates: it goes to the network whatever is stored
StaticMatchThenRevalidate(f, m) == [f EXCEPT !.netState = "pending", !.pc = "net"]

\* cache-first: the .then callback of caches.match, which resolved with m
StaticMatchThen(f, m) ==
  IF m # NoResponse
    THEN [f EXCEPT !.settled = "response", !.resp = m, !.pc = "done"]
    ELSE [f EXCEPT !.netState = "pending", !.pc = "net"]

\* cache-first: the .then callback of fetch(event.request)
StaticThen(f, response) ==
  IF ~ Cacheable(response)
    THEN [f EXCEPT !.netState = "resolved", !.net = response,
                   !.settled = "response", !.resp = response, !.pc = "done"]
    ELSE [f EXCEPT !.netState = "resolved", !.net = response,
                   !.settled = "response", !.resp = response, !.pc = "put"]

\* a variant that catches the failure and asks the cache, as the
\* network-first branch does
StaticRejectFallback(f) == [f EXCEPT !.netState = "rejected", !.pc = "fallback"]

\* cache-first: fetch rejected; nothing catches it
StaticReject(f) ==
  [f EXCEPT !.netState = "rejected", !.settled = "rejected", !.pc = "done"]

\* the runtime delivers a fetch event to the activated worker
FetchEvent ==
  /\ worker = "activated"
  /\ Len(fetches) + Len(syncs) < MaxEvents
  /\ \E url \in FetchURLs : fetches' = Append(fetches, FetchStart(url))
  /\ UNCHANGED << cacheNames, buckets, worker, install, activate, syncs >>
  /\ UNCHANGED notifVars

\* caches.match(event.request) of the cache-first branch resolves
FetchMatch(i) ==
  /\ fetches[i].pc = "match"
  /\ fetches' = [fetches EXCEPT ![i] = StaticMatchThen(@, CachesMatch(@.url))]
  /\ UNCHANGED << cacheNames, buckets, worker, install, activate, syncs >>
  /\ UNCHANGED notifVars

\* fetch(event.request) resolves
FetchNetResolve(i) ==
  /\ fetches[i].pc = "net"
  /\ \E response \in NetResponses(fetches[i].url) :
       fetches' = [fetches EXCEPT ![i] =
                     IF IsDynamic(@.url) THEN DynamicThen(@, response)
                                         ELSE StaticThen(@, response)]
  /\ UNCHANGED << cacheNames, buckets, worker, install, activate, syncs >>
  /\ UNCHANGED notifVars

\* fetch(event.request) rejects: the network is unreachable
FetchNetReject(i) ==
  /\ fetches[i].pc = "net"
  /\ fetches' = [fetches EXCEPT ![i] =
                   IF IsDynamic(@.url) THEN DynamicCatch(@) ELSE StaticReject(@)]
  /\ UNCHANGED << cacheNames, buckets, worker, install, activate, syncs >>
  /\ UNCHANGED notifVars

\* caches.match(event.request) of the network-first fallback resolves
FetchFallback(i) ==
  /\ fetches[i].pc = "fallback"
  /\ fetches' = [fetches EXCEPT ![i] = DynamicFallback(@, CachesMatch(@.url))]
  /\ UNCHANGED << cacheNames, buckets, worker, install, activate, syncs >>
  /\ UNCHANGED notifVars

\* a variant that writes to the bucket of the previous version
FetchBucketPrevious == "cricstreamzone-v1.0.5"

\* the bucket a fetch handler writes to
FetchBucket == CACHE_NAME

\* caches.open(CACHE_NAME).then(cache => cache.put(event.request, clone)):
\* the write a handler started before it returned the response
FetchPut(i) ==
  /\ fetches[i].pc = "put"
  /\ cacheNames' = OpenNames(FetchBucket)
  /\ buckets' = Put(FetchBucket, fetches[i].url, fetches[i].net)
  /\ fetches' = [fetches EXCEPT ![i] = [@ EXCEPT !.wrote = fetches[i].net, !.pc = "done"]]
  /\ UNCHANGED << worker, install, activate, syncs >>
  /\ UNCHANGED notifVars

----------------------------------------------------------------------------
(* sync *)

SyncTags == { SyncTag, "some-other-tag" }

\* the sync handler: only the tag background-sync-matches starts work
SyncStart(tag) ==
  IF tag = SyncTag
    THEN [tag |-> tag, pc |-> "net", promise |-> "pending", data |-> 0]
    ELSE [tag |-> tag, pc |-> "done", promise |-> "none", data |-> 0]

SyncEvent ==
  /\ worker = "activated"
  /\ Len(fetches) + Len(syncs) < MaxEvents
  /\ \E tag \in SyncTags : syncs' = Append(syncs, SyncStart(tag))
  /\ UNCHANGED << cacheNames, buckets, worker, install, activate, fetches >>
  /\ UNCHANGED notifVars

\* fetch(endpoint).then(response => response.json()) resolves with data
SyncJson(i) ==
  /\ syncs[i].pc = "net"
  /\ \E b \in Bodies : syncs' = [syncs EXCEPT ![i] = [@ EXCEPT !.pc = "open", !.data = b]]
  /\ UNCHANGED << cacheNames, buckets, worker, install, activate, fetches >>
  /\ UNCHANGED notifVars

\* fetch rejects or the body is not JSON: the .catch callback logs
SyncCatch(i) ==
  /\ syncs[i].pc = "net"
  /\ syncs' = [syncs EXCEPT ![i] = [@ EXCEPT !.pc = "done", !.promise = "fulfilled"]]
  /\ UNCHANGED << cacheNames, buckets, worker, install, activate, fetches >>
  /\ UNCHANGED notifVars

\* caches.open(CACHE_NAME) resolves: its callback starts cache.put and
\* returns undefined, which settles the promise given to waitUntil
SyncOpen(i) ==
  /\ syncs[i].pc = "open"
  /\ cacheNames' = OpenNames(CACHE_NAME)
  /\ syncs' = [syncs EXCEPT ![i] = [@ EXCEPT !.pc = "put", !.promise = "fulfilled"]]
  /\ UNCHANGED << buckets, worker, install, activate, fetches >>
  /\ UNCHANGED notifVars

\* cache.put('matches-data', new Response(JSON.stringify(data))) completes
SyncPut(i) ==
  /\ syncs[i].pc = "put"
  /\ buckets' = Put(CACHE_NAME, MatchesDataKey, SyncResponse(syncs[i].data))
  /\ syncs' = [syncs EXCEPT ![i] = [@ EXCEPT !.pc = "done"]]
  /\ UNCHANGED << cacheNames, worker, install, activate, fetches >>
  /\ UNCHANGED notifVars

----------------------------------------------------------------------------
(* The runtime stops an idle worker: one with no unsettled promise given  *)
(* to waitUntil or respondWith. Callbacks that have not run yet never run. *)

CacheIdle ==
  /\ install.promise # "pending"
  /\ activate.promise # "pending"
  /\ \A i \in 1..Len(fetches) : fetches[i].settled # "pending"
  /\ \A i \in 1..Len(syncs) : syncs[i].promise # "pending"

CacheOutstanding ==
  \/ \E i \in 1..Len(fetches) : fetches[i].pc = "put"
  \/ \E i \in 1..Len(syncs) : syncs[i].pc = "put"

Dropped(h) == IF h.pc = "put" THEN [h EXCEPT !.pc = "dropped"] ELSE h

TerminateCache ==
  /\ CacheIdle
  /\ CacheOutstanding
  /\ fetches' = [i \in 1..Len(fetches) |-> Dropped(fetches[i])]
  /\ syncs' = [i \in 1..Len(syncs) |-> Dropped(syncs[i])]
  /\ UNCHANGED << cacheNames, buckets, worker, install, activate >>
  /\ UNCHANGED notifVars

----------------------------------------------------------------------------
(* The cache manager *)

InitCache ==
  /\ cacheNames \in { << >>, << "cricstreamzone-v1.0.4" >>, << "cricstreamzone-v1.0.5" >>,
                      << "cricstreamzone-v1.0.4", "cricstreamzone-v1.0.5" >> }
  /\ buckets = [n \in BucketNames |->
                  IF n \in Range(cacheNames) THEN StaleBucket ELSE EmptyBucket]
  /\ worker = "parsed"
  /\ install = InstallIdle
  /\ activate = ActivateIdle
  /\ fetches = << >>
  /\ syncs = << >>

NextCache ==
  \/ InstallEvent
  \/ InstallOpen
  \/ InstallAddAll
  \/ ActivateEvent
  \/ ActivateKeys
  \/ ActivateDelete
  \/ ActivateClaim
  \/ FetchEvent
  \/ \E i \in 1..Len(fetches) : FetchMatch(i)
  \/ \E i \in 1..Len(fetches) : FetchNetResolve(i)
  \/ \E i \in 1..Len(fetches) : FetchNetReject(i)
  \/ \E i \in 1..Len(fetches) : FetchFallback(i)
  \/ \E i \in 1..Len(fetches) : FetchPut(i)
  \/ SyncEvent
  \/ \E i \in 1..Len(syncs) : SyncJson(i)
  \/ \E i \in 1..Len(syncs) : SyncCatch(i)
  \/ \E i \in 1..Len(syncs) : SyncOpen(i)
  \/ \E i \in 1..Len(syncs) : SyncPut(i)
  \/ TerminateCache

----------------------------------------------------------------------------
(* Notifications: values *)

\* undefined and null of the code, and a field a push payload does not have
Undefined == "undefined"
Null == "null"
Absent == "absent"

\* a || b of the code, on strings
Falsy(v) == v \in { Undefined, Null, Absent, "" }

OrElse(v, default) == IF Falsy(v) THEN default ELSE v

\* a + b of the code, on strings: the pair of the two parts
Concat(a, b) == << a, b >>

DefaultTitle == "CricStreamZone"
DefaultBody == "New cricket match update!"
IconURL == "https://i.postimg.cc/3rPWWckN/icon-192.png"

\* the three actions of a pushed notification, the two of a scheduled one
PushActions == << "watch", "remind", "dismiss" >>
ScheduledActions == << "watch", "dismiss" >>

\* the delay of a reminder: 5 * 60 * 1000
ReminderDelay == 300000

\* the data of a notification shown without a data option
NoData ==
  [kind |-> Null, dateOfArrival |-> Undefined, primaryKey |-> Undefined,
   url |-> Undefined, matchData |-> Undefined]

\* notificationData before the payload is merged in
DefaultData ==
  [title |-> DefaultTitle, body |-> DefaultBody, icon |-> IconURL, badge |-> IconURL,
   url |-> Undefined, matchData |-> Undefined, matchId |-> Undefined]

PushFields == { "title", "body", "icon", "badge", "url", "matchData", "matchId" }

NoFields == [f \in PushFields |-> Absent]

\* The payloads of the model. kind: none (event.data is null), json (the
\* text decodes to the object fields), text (event.data.json() throws).
PushPayloads ==
  { [kind |-> "none", text |-> "", fields |-> NoFields],
    [kind |-> "json", text |-> "{title:X,matchId:42}",
     fields |-> [NoFields EXCEPT !["title"] = "X", !["matchId"] = "42"]],
    [kind |-> "json", text |-> "{body:Wicket,url:/live,matchData:m1}",
     fields |-> [NoFields EXCEPT !["body"] = "Wicket", !["url"] = "/live",
                                 !["matchData"] = "m1"]],
    [kind |-> "json", text |-> "{title:,url:,matchId:}",
     fields |-> [NoFields EXCEPT !["title"] = "", !["url"] = "", !["matchId"] = ""]],
    [kind |-> "text", text |-> "plain text", fields |-> NoFields] }

\* { ...notificationData, ...pushData }: the fields of pushData win
Merge(base, fields) ==
  [f \in PushFields |-> IF fields[f] # Absent THEN fields[f] ELSE base[f]]

\* a variant whose catch block leaves the default body in place
NotificationDataDropText(payload) ==
  IF payload.kind = "json" THEN Merge(DefaultData, payload.fields) ELSE DefaultData

\* the payload decoding of the push handler
NotificationData(payload) ==
  IF payload.kind = "none" THEN DefaultData
  ELSE IF payload.kind = "json" THEN Merge(DefaultData, payload.fields)
  ELSE [DefaultData EXCEPT !["body"] = payload.text]

\* a variant that appends matchId to the tag prefix without a fallback
PushTagNoFallback(nd) == Concat("cricket-match-", nd["matchId"])

\* the tag of a pushed notification
PushTag(nd) == Concat("cricket-match-", OrElse(nd["matchId"], "general"))

\* title and options the push handler passes to showNotification
PushNotification(payload) ==
  LET nd == NotificationData(payload) IN
  [title |-> nd["title"], body |-> nd["body"], icon |-> nd["icon"], badge |-> nd["badge"],
   data |-> [kind |-> "object", dateOfArrival |-> "Date.now()",
             primaryKey |-> "Math.random()",
             url |-> OrElse(nd["url"], "/"),
             matchData |-> OrElse(nd["matchData"], Null)],
   actions |-> PushActions,
   tag |-> PushTag(nd)]

\* the notification of the reminder timer
ReminderNotification ==
  [title |-> "Cricket Match Reminder", body |-> "Don't forget to check the live match!",
   icon |-> IconURL, badge |-> Undefined, data |-> NoData, actions |-> << >>,
   tag |-> << "reminder" >>]

\* the notification the message handler schedules
ScheduledNotification(title, body, matchData) ==
  [title |-> title, body |-> body, icon |-> IconURL, badge |-> IconURL,
   data |-> [NoData EXCEPT !.kind = "object", !.matchData = matchData],
   actions |-> ScheduledActions, tag |-> << >>]

\* const urlToOpen = event.notification.data?.url || '/'
UrlToOpen(notification) ==
  IF notification.data.kind = Null THEN "/" ELSE OrElse(notification.data.url, "/")

\* the URL of a window, as the parts it is concatenated from
Url(u) == << u >>

----------------------------------------------------------------------------
(* Notifications: state *)

\* showNotification: a notification with a tag replaces the one with that tag
Show(shown, n) == { m \in shown : n.tag = << >> \/ m.tag # n.tag } \cup { n }

\* an effect a click handler had on the world, in order
Effect(op, target, url, message) ==
  [op |-> op, target |-> target, url |-> url, message |-> message]

NoMessage == [action |-> Undefined, data |-> NoData]

NoUrl == << >>

NotifEvents == Len(pushes) + Len(clicks) + Len(messages)

----------------------------------------------------------------------------
(* push *)

PushStart(payload) ==
  [payload |-> payload, notification |-> PushNotification(payload),
   pc |-> "show", promise |-> "pending", displayed |-> 0]

\* the runtime delivers a push event; the handler builds the notification
\* and calls showNotification inside waitUntil
PushEvent ==
  /\ worker = "activated"
  /\ NotifEvents < MaxNotifEvents
  /\ \E payload \in PushPayloads : pushes' = Append(pushes, PushStart(payload))
  /\ UNCHANGED << visible, windows, timers, clicks, messages, skipWaitingCalls >>
  /\ UNCHANGED cacheVars

\* showNotification resolves: the notification is on screen
PushShown(i) ==
  /\ pushes[i].pc = "show"
  /\ visible' = Show(visible, pushes[i].notification)
  /\ pushes' = [pushes EXCEPT ![i] =
                  [@ EXCEPT !.pc = "done", !.promise = "fulfilled", !.displayed = 1]]
  /\ UNCHANGED << windows, timers, clicks, messages, skipWaitingCalls >>
  /\ UNCHANGED cacheVars

\* showNotification rejects (no permission): the .catch callback logs
PushShowFailed(i) ==
  /\ pushes[i].pc = "show"
  /\ pushes' = [pushes EXCEPT ![i] = [@ EXCEPT !.pc = "done", !.promise = "fulfilled"]]
  /\ UNCHANGED << visible, windows, timers, clicks, messages, skipWaitingCalls >>
  /\ UNCHANGED cacheVars

----------------------------------------------------------------------------
(* notificationclick *)

\* event.action: '' for a click on the body of the notification
ClickActions == { "watch", "remind", "dismiss", "", "share" }

CloseEffect == Effect("close", 0, NoUrl, NoMessage)

ReminderTimer ==
  [delay |-> ReminderDelay, notification |-> ReminderNotification, owner |-> "click"]

\* a variant that closes the notification in the dismiss branch only
ClickStartCloseOnDismiss(notification, action) ==
  [action |-> action, notification |-> notification,
   pc |-> IF action = "watch" THEN "watch"
          ELSE IF action \in { "remind", "dismiss" } THEN "done" ELSE "default",
   promise |-> IF action \in { "remind", "dismiss" } THEN "none" ELSE "pending",
   log |-> IF action = "remind" THEN << Effect("setTimeout", 0, NoUrl, NoMessage) >>
           ELSE IF action = "dismiss" THEN << CloseEffect >> ELSE << >>]

\* the synchronous part of the handler: close, then the branch on the action.
\* watch and the default branch call waitUntil; remind and dismiss do not
ClickStart(notification, action) ==
  [action |-> action, notification |-> notification,
   pc |-> IF action = "watch" THEN "watch"
          ELSE IF action \in { "remind", "dismiss" } THEN "done" ELSE "default",
   promise |-> IF action \in { "remind", "dismiss" } THEN "none" ELSE "pending",
   log |-> IF action = "remind"
             THEN << CloseEffect, Effect("setTimeout", 0, NoUrl, NoMessage) >>
             ELSE << CloseEffect >>]

\* event.notification.close() was called
Closes(h) == \E k \in 1..Len(h.log) : h.log[k].op = "close"

\* a variant whose remind branch sets the reminder timer twice
ClickTimersTwice(action) ==
  IF action = "remind" THEN timers \o << ReminderTimer, ReminderTimer >> ELSE timers

\* the timers after the synchronous part of the handler
ClickTimers(action) == IF action = "remind" THEN Append(timers, ReminderTimer) ELSE timers

\* the user clicks a notification on screen, or one of its buttons
NotificationClick ==
  /\ worker = "activated"
  /\ NotifEvents < MaxNotifEvents
  /\ \E n \in visible, action \in ClickActions :
       LET h == ClickStart(n, action) IN
       /\ visible' = IF Closes(h) THEN visible \ { n } ELSE visible
       /\ clicks' = Append(clicks, h)
       /\ timers' = ClickTimers(action)
  /\ UNCHANGED << windows, pushes, messages, skipWaitingCalls >>
  /\ UNCHANGED cacheVars

\* client.url.includes(self.location.origin): clients.matchAll gives the
\* windows of the worker's origin only, whose URL begins with the origin
IncludesOrigin(w) == w.sameOrigin

\* a variant in which the loop does not return after the first match, so
\* that the last matching client is the one reported
FirstAppWindowLast(clientList) ==
  IF \E k \in 1..Len(clientList) : IncludesOrigin(clientList[k])
    THEN CHOOSE k \in 1..Len(clientList) :
           /\ IncludesOrigin(clientList[k])
           /\ \A j \in (k + 1)..Len(clientList) : ~ IncludesOrigin(clientList[j])
    ELSE 0

\* the index of the first client the watch branch accepts; 0 when none
FirstAppWindow(clientList) ==
  IF \E k \in 1..Len(clientList) : IncludesOrigin(clientList[k])
    THEN CHOOSE k \in 1..Len(clientList) :
           /\ IncludesOrigin(clientList[k])
           /\ \A j \in 1..(k - 1) : ~ IncludesOrigin(clientList[j])
    ELSE 0

\* the indices, in windows, of the clients matchAll resolves with
Clients(includeUncontrolled) ==
  SelectSeq([k \in 1..Len(windows) |-> k],
            LAMBDA k : includeUncontrolled \/ windows[k].controlled)

NewWindow(url) == [url |-> url, controlled |-> TRUE, sameOrigin |-> TRUE]

\* watch: the .then callback of clients.matchAll({type: 'window',
\* includeUncontrolled: true})
ClickWatch(i) ==
  /\ clicks[i].pc = "watch"
  /\ LET list == Clients(TRUE)
         first == FirstAppWindow([k \in 1..Len(list) |-> windows[list[k]]])
         url == Concat(UrlToOpen(clicks[i].notification), "?action=watch")
     IN IF first # 0
          THEN /\ clicks' = [clicks EXCEPT ![i] =
                    [@ EXCEPT !.pc = "done", !.promise = "fulfilled",
                       !.log = @ \o << Effect("focus", list[first], NoUrl, NoMessage),
                                      Effect("postMessage", list[first], NoUrl,
                                             [action |-> "showLiveMatches",
                                              data |-> clicks[i].notification.data]) >>]]
               /\ windows' = windows
          ELSE /\ clicks' = [clicks EXCEPT ![i] =
                    [@ EXCEPT !.pc = "done", !.promise = "fulfilled",
                       !.log = Append(@, Effect("openWindow", 0, url, NoMessage))]]
               /\ windows' = Append(windows, NewWindow(url))
  /\ UNCHANGED << visible, timers, pushes, messages, skipWaitingCalls >>
  /\ UNCHANGED cacheVars

\* default: the .then callback of clients.matchAll({type: 'window'})
ClickDefault(i) ==
  /\ clicks[i].pc = "default"
  /\ LET list == Clients(FALSE)
         url == Url(UrlToOpen(clicks[i].notification))
     IN IF Len(list) > 0
          THEN /\ clicks' = [clicks EXCEPT ![i] =
                    [@ EXCEPT !.pc = "done", !.promise = "fulfilled",
                       !.log = Append(@, Effect("focus", list[1], NoUrl, NoMessage))]]
               /\ windows' = windows
          ELSE /\ clicks' = [clicks EXCEPT ![i] =
                    [@ EXCEPT !.pc = "done", !.promise = "fulfilled",
                       !.log = Append(@, Effect("openWindow", 0, url, NoMessage))]]
               /\ windows' = Append(windows, NewWindow(url))
  /\ UNCHANGED << visible, timers, pushes, messages, skipWaitingCalls >>
  /\ UNCHANGED cacheVars

----------------------------------------------------------------------------
(* message *)

NullMessage ==
  [kind |-> Null, action |-> Undefined, title |-> Undefined, body |-> Undefined,
   delay |-> 0, matchData |-> Undefined]

\* event.data of the message events of the model
MessageData ==
  { NullMessage,
    [NullMessage EXCEPT !.kind = "object"],
    [NullMessage EXCEPT !.kind = "object", !.action = "skipWaiting"],
    [NullMessage EXCEPT !.kind = "object", !.action = "scheduleNotification",
                        !.title = "Match starts", !.body = "IND v AUS",
                        !.delay = 60000, !.matchData = "m7"],
    [NullMessage EXCEPT !.kind = "object", !.action = "refresh"] }

\* a variant that takes every action it does not know for skipWaiting
MessageKindLoose(data) ==
  IF data.kind # Null /\ data.action = "scheduleNotification" THEN "schedule"
  ELSE IF data.kind # Null /\ data.action # Undefined THEN "skipWaiting"
  ELSE "ignored"

\* what the handler does with event.data: skipWaiting, schedule, nothing
MessageKind(data) ==
  IF data.kind # Null /\ data.action = "skipWaiting" THEN "skipWaiting"
  ELSE IF data.kind # Null /\ data.action = "scheduleNotification" THEN "schedule"
  ELSE "ignored"

ScheduledTimer(data) ==
  [delay |-> data.delay,
   notification |-> ScheduledNotification(data.title, data.body, data.matchData),
   owner |-> "message"]

\* a page posts a message to the worker; the handler never calls waitUntil
MessageEvent ==
  /\ NotifEvents < MaxNotifEvents
  /\ \E data \in MessageData :
       /\ messages' = Append(messages, [data |-> data, did |-> MessageKind(data),
                                        promise |-> "none"])
       /\ skipWaitingCalls' =
            IF MessageKind(data) = "skipWaiting" THEN skipWaitingCalls + 1
                                                 ELSE skipWaitingCalls
       /\ timers' = IF MessageKind(data) = "schedule"
                      THEN Append(timers, ScheduledTimer(data)) ELSE timers
  /\ UNCHANGED << visible, windows, pushes, clicks >>
  /\ UNCHANGED cacheVars

----------------------------------------------------------------------------
(* timers, and the end of an idle worker *)

RemoveAt(seq, k) == SubSeq(seq, 1, k - 1) \o SubSeq(seq, k + 1, Len(seq))

\* a setTimeout callback runs: showNotification, which may be refused
TimerFire(k) ==
  /\ \E ok \in BOOLEAN :
       visible' = IF ok THEN Show(visible, timers[k].notification) ELSE visible
  /\ timers' = RemoveAt(timers, k)
  /\ UNCHANGED << windows, pushes, clicks, messages, skipWaitingCalls >>
  /\ UNCHANGED cacheVars

NotifIdle ==
  /\ \A i \in 1..Len(pushes) : pushes[i].promise # "pending"
  /\ \A i \in 1..Len(clicks) : clicks[i].promise # "pending"

\* the runtime stops the idle worker: its pending timers never fire
TerminateNotif ==
  /\ NotifIdle
  /\ timers # << >>
  /\ timers' = << >>
  /\ UNCHANGED << visible, windows, pushes, clicks, messages, skipWaitingCalls >>
  /\ UNCHANGED cacheVars

----------------------------------------------------------------------------
(* The specifications *)

\* the windows of the application, as clients.matchAll orders them
WindowConfigs ==
  { << >>,
    << [url |-> Url("/"), controlled |-> TRUE, sameOrigin |-> TRUE] >>,
    << [url |-> Url("/live"), controlled |-> FALSE, sameOrigin |-> TRUE] >>,
    << [url |-> Url("/live"), controlled |-> FALSE, sameOrigin |-> TRUE],
       [url |-> Url("/"), controlled |-> TRUE, sameOrigin |-> TRUE] >> }

NotifQuiet ==
  /\ visible = {}
  /\ timers = << >>
  /\ pushes = << >>
  /\ clicks = << >>
  /\ messages = << >>
  /\ skipWaitingCalls = 0

\* the cache manager, from the freshly parsed worker on
Init == InitCache /\ NotifQuiet /\ windows = << >>

Next == NextCache

Spec == Init /\ [][Next]_vars

\* the worker after a successful install and its activation, before the
\* first functional event: a state Spec reaches
Activated ==
  /\ cacheNames = << CACHE_NAME >>
  /\ buckets = [n \in BucketNames |->
                  IF n = CACHE_NAME
                    THEN [k \in Keys |-> IF k \in Range(urlsToCache)
                                           THEN ManifestResponse(k, 1) ELSE NoResponse]
                    ELSE EmptyBucket]
  /\ worker = "activated"
  /\ install = [pc |-> "done", promise |-> "fulfilled", fetched |-> TRUE,
                skipWaiting |-> TRUE]
  /\ activate = [pc |-> "done", promise |-> "fulfilled", toDelete |-> {}, deleted |-> {}]
  /\ fetches = << >>
  /\ syncs = << >>

NextNotif ==
  \/ PushEvent
  \/ \E i \in 1..Len(pushes) : PushShown(i)
  \/ \E i \in 1..Len(pushes) : PushShowFailed(i)
  \/ NotificationClick
  \/ \E i \in 1..Len(clicks) : ClickWatch(i)
  \/ \E i \in 1..Len(clicks) : ClickDefault(i)
  \/ MessageEvent
  \/ \E k \in 1..Len(timers) : TimerFire(k)
  \/ TerminateNotif

\* the notification dispatcher of the activated worker
InitNotif == Activated /\ NotifQuiet /\ windows \in WindowConfigs

NotifSpec == InitNotif /\ [][NextNotif]_vars

----------------------------------------------------------------------------
(* The update window: this worker is the active one and serves fetch events *)
(* while the next version of the file is being installed. The install       *)
(* handler of that version is the one above with its own bucket name.       *)

\* caches.open of the installing version creates its bucket
NewerInstallOpen ==
  /\ worker = "activated"
  /\ ~ Exists(NewerName)
  /\ cacheNames' = OpenNames(NewerName)
  /\ UNCHANGED << buckets, worker, install, activate, fetches, syncs >>
  /\ UNCHANGED notifVars

\* cache.addAll of the installing version stores its manifest
NewerInstallAddAll ==
  /\ Exists(NewerName)
  /\ buckets[NewerName] = EmptyBucket
  /\ \E b \in Bodies :
       buckets' = [buckets EXCEPT ![NewerName] =
                     [k \in Keys |-> IF k \in Range(urlsToCache)
                                       THEN ManifestResponse(k, b) ELSE @[k]]]
  /\ UNCHANGED << cacheNames, worker, install, activate, fetches, syncs >>
  /\ UNCHANGED notifVars

\* the activated worker whose own install stored nothing: addAll failed,
\* the catch callback fulfilled the promise, the runtime activated it later
ActivatedUnseeded ==
  /\ cacheNames = << CACHE_NAME >>
  /\ buckets = [n \in BucketNames |-> EmptyBucket]
  /\ worker = "activated"
  /\ install = [pc |-> "done", promise |-> InstallCatch, fetched |-> FALSE,
                skipWaiting |-> FALSE]
  /\ activate = [pc |-> "done", promise |-> "fulfilled", toDelete |-> {}, deleted |-> {}]
  /\ fetches = << >>
  /\ syncs = << >>

InitUpdate == ( Activated \/ ActivatedUnseeded ) /\ NotifQuiet /\ windows = << >>

NextUpdate ==
  \/ NewerInstallOpen
  \/ NewerInstallAddAll
  \/ FetchEvent
  \/ \E i \in 1..Len(fetches) : FetchMatch(i)
  \/ \E i \in 1..Len(fetches) : FetchNetResolve(i)
  \/ \E i \in 1..Len(fetches) : FetchNetReject(i)
  \/ \E i \in 1..Len(fetches) : FetchFallback(i)
  \/ \E i \in 1..Len(fetches) : FetchPut(i)

UpdateSpec == InitUpdate /\ [][NextUpdate]_vars

----------------------------------------------------------------------------
(* Claims about the cache manager *)

\* the requests the fetch handler is to treat as dynamic: the host contains
\* script.google.com or the path contains api
DynamicURLs == { "/api/matches", "https://script.google.com/macros/s/ID/exec" }

StaticURLs == FetchURLs \ DynamicURLs

Handlers == 1..Len(fetches)

\* C1: a static request for which Cache Storage holds a response is answered
\* with exactly that response, and the handler makes no network request.
C1_StaticHitFromCache ==
  [][\A i \in Handlers :
       ( /\ fetches[i].url \in StaticURLs
         /\ fetches[i].pc = "match"
         /\ fetches'[i] # fetches[i]
         /\ CachesMatch(fetches[i].url) # NoResponse )
       => ( /\ fetches'[i].settled = "response"
            /\ fetches'[i].resp = CachesMatch(fetches[i].url)
            /\ fetches'[i].netState = "none"
            /\ fetches'[i].pc = "done" )]_vars

\* a static request was answered from the seeded bucket and the handler is
\* through, without a call of fetch()
C1_Witness ==
  \E i \in Handlers :
    /\ fetches[i].url = "/"
    /\ fetches[i].pc = "done"
    /\ fetches[i].settled = "response"
    /\ fetches[i].netState = "none"
    /\ fetches[i].resp = buckets[CACHE_NAME]["/"]

\* C2: for a dynamic request whose network fetch resolves, the handler
\* answers with the network response and starts a write of it; when that
\* write has run, the current bucket holds the response under the request.
C2_DynamicSuccess ==
  [][\A i \in Handlers :
       fetches[i].url \in DynamicURLs =>
         /\ ( fetches[i].pc = "net" /\ fetches'[i].netState = "resolved" )
            => ( /\ fetches'[i].net \in NetResponses(fetches[i].url)
                 /\ fetches'[i].settled = "response"
                 /\ fetches'[i].resp = fetches'[i].net
                 /\ fetches'[i].pc = "put" )
         /\ ( fetches[i].pc = "put" /\ fetches'[i].pc = "done" )
            => ( /\ CACHE_NAME \in Range(cacheNames')
                 /\ buckets'[CACHE_NAME][fetches[i].url] = fetches[i].resp
                 /\ fetches'[i].wrote = fetches[i].resp )]_vars

\* a dynamic request got a 404 from the network, which was returned and is
\* now in the current bucket
C2_Witness ==
  \E i \in Handlers :
    /\ fetches[i].url = "/api/matches"
    /\ fetches[i].pc = "done"
    /\ fetches[i].netState = "resolved"
    /\ fetches[i].resp.status = 404
    /\ buckets[CACHE_NAME]["/api/matches"] = fetches[i].resp

\* C3 (as claimed): at the moment a dynamic handler delivers the network
\* response, the bucket already holds that response.
C3_StoredBeforeReturned ==
  [][\A i \in Handlers :
       ( /\ fetches[i].url \in DynamicURLs
         /\ fetches[i].settled = "pending"
         /\ fetches'[i].settled = "response"
         /\ fetches'[i].netState = "resolved" )
       => buckets'[CACHE_NAME][fetches[i].url] = fetches'[i].resp]_vars

\* C4: a dynamic request whose network fetch fails is answered with what
\* Cache Storage holds for it; when it holds nothing the respondWith
\* promise yields no response at all.
C4_DynamicFallback ==
  [][\A i \in Handlers :
       fetches[i].url \in DynamicURLs =>
         /\ ( fetches[i].pc = "net" /\ fetches'[i].netState = "rejected" )
            => ( fetches'[i].settled = "pending" /\ fetches'[i].pc = "fallback" )
         /\ ( fetches[i].pc = "fallback" /\ fetches'[i] # fetches[i] )
            => ( /\ fetches'[i].pc = "done"
                 /\ fetches'[i].resp = CachesMatch(fetches[i].url)
                 /\ fetches'[i].wrote = NoResponse
                 /\ fetches'[i].settled =
                      IF CachesMatch(fetches[i].url) # NoResponse
                        THEN "response" ELSE "undefined" )]_vars

\* a dynamic request fell back to the response an earlier request stored
C4_Witness ==
  \E i, j \in Handlers :
    /\ i # j
    /\ fetches[i].url = fetches[j].url
    /\ fetches[i].pc = "done" /\ fetches[i].wrote # NoResponse
    /\ fetches[j].pc = "done" /\ fetches[j].netState = "rejected"
    /\ fetches[j].settled = "response"
    /\ fetches[j].resp = fetches[i].wrote

\* C5: a static request that missed the cache is answered with the network
\* response; the handler writes it to the bucket exactly when it is a basic
\* response with status 200, and otherwise leaves the bucket alone.
C5_StaticMiss ==
  [][\A i \in Handlers :
       fetches[i].url \in StaticURLs =>
         /\ ( fetches[i].pc = "net" /\ fetches'[i].netState = "resolved" )
            => ( /\ fetches'[i].net \in NetResponses(fetches[i].url)
                 /\ fetches'[i].settled = "response"
                 /\ fetches'[i].resp = fetches'[i].net
                 /\ buckets' = buckets
                 /\ fetches'[i].pc =
                      IF fetches'[i].net.status = 200 /\ fetches'[i].net.type = "basic"
                        THEN "put" ELSE "done" )
         /\ ( fetches[i].pc = "put" /\ fetches'[i].pc = "done" )
            => ( /\ fetches[i].resp.status = 200 /\ fetches[i].resp.type = "basic"
                 /\ buckets'[CACHE_NAME][fetches[i].url] = fetches[i].resp
                 /\ fetches'[i].wrote = fetches[i].resp )
         /\ ( fetches[i].pc = "done" /\ fetches[i].wrote = NoResponse )
            => fetches'[i].wrote = NoResponse]_vars

\* after an install that seeded nothing: one static miss stored its basic
\* 200 response, another returned a cors 200 response and stored nothing
C5_Witness ==
  \E i, j \in Handlers :
    /\ fetches[i].url = "/" /\ fetches[i].pc = "done"
    /\ fetches[i].wrote = fetches[i].resp /\ fetches[i].resp.status = 200
    /\ buckets[CACHE_NAME]["/"] = fetches[i].resp
    /\ fetches[j].url = "https://i.postimg.cc/3rPWWckN/icon-192.png"
    /\ fetches[j].pc = "done" /\ fetches[j].resp.status = 200
    /\ fetches[j].resp.type = "cors" /\ fetches[j].wrote = NoResponse
    /\ buckets[CACHE_NAME][fetches[j].url] = NoResponse

\* C6 (as claimed): once the install has succeeded, i.e. the runtime has
\* taken the worker to installed or beyond, the current bucket holds a
\* response for every manifest URL.
C6_SeededAfterInstall ==
  worker \in { "installed", "activating", "activated" } =>
    /\ Exists(CACHE_NAME)
    /\ \A u \in Range(urlsToCache) : buckets[CACHE_NAME][u] # NoResponse

\* C7 (as claimed): when the fetch of a manifest URL fails, the promise
\* given to waitUntil rejects and the worker does not go on to activate.
C7_InstallFailsOnFetchFailure ==
  ( install.pc = "done" /\ ~ install.fetched ) =>
    /\ install.promise = "rejected"
    /\ worker \notin { "installed", "activating", "activated" }

\* C8: once the activate handler is through, the existing buckets are
\* exactly the current one.
C8_OnlyCurrentBucket ==
  activate.pc = "done" => Range(cacheNames) = { CACHE_NAME }

\* the activate handler deleted both stale buckets, and a fetch handler has
\* written to the current bucket since
C8_Witness ==
  /\ activate.pc = "done"
  /\ activate.deleted = StaleNames
  /\ \E i \in Handlers : fetches[i].pc = "done" /\ fetches[i].wrote # NoResponse

----------------------------------------------------------------------------
(* Claims about the lifetime of the handlers and about notification clicks *)

\* C9 (as claimed): no promise given to waitUntil or respondWith has settled
\* while a cache write or a timer its handler started is outstanding.
C9_WorkIsSignalled ==
  /\ \A i \in 1..Len(fetches) : fetches[i].pc = "put" => fetches[i].settled = "pending"
  /\ \A i \in 1..Len(syncs) : syncs[i].pc = "put" => syncs[i].promise = "pending"
  /\ \A k \in 1..Len(timers) :
       \/ /\ timers[k].owner = "click"
          /\ \E i \in 1..Len(clicks) :
               clicks[i].action = "remind" /\ clicks[i].promise = "pending"
       \/ /\ timers[k].owner = "message"
          /\ \E i \in 1..Len(messages) :
               messages[i].did = "schedule" /\ messages[i].promise = "pending"

\* C10: a click closes the notification before anything else: the close is
\* the first effect of every handler and happens in the step of the click,
\* in which no window is focused, opened or messaged; whatever follows is
\* appended after it; a dismiss click has no other effect, then or later.
C10_CloseFirst ==
  [][/\ Len(clicks') > Len(clicks) =>
          LET h == clicks'[Len(clicks')] IN
          /\ Len(h.log) >= 1 /\ h.log[1] = CloseEffect
          /\ h.notification \in visible /\ h.notification \notin visible'
          /\ windows' = windows
          /\ \A k \in 2..Len(h.log) : h.log[k].op = "setTimeout"
          /\ h.action = "dismiss" =>
               /\ h.log = << CloseEffect >>
               /\ h.pc = "done" /\ h.promise = "none"
               /\ timers' = timers /\ pushes' = pushes /\ messages' = messages
               /\ visible' = visible \ { h.notification }
     /\ \A i \in 1..Len(clicks) :
          /\ clicks[i].action = "dismiss" => clicks'[i] = clicks[i]
          /\ Len(clicks'[i].log) >= Len(clicks[i].log)
          /\ SubSeq(clicks'[i].log, 1, Len(clicks[i].log)) = clicks[i].log
          /\ \A k \in (Len(clicks[i].log) + 1)..Len(clicks'[i].log) :
               clicks'[i].log[k].op # "close"]_vars

\* a watch click closed the notification, then focused and messaged a window
C10_Witness ==
  \E i \in 1..Len(clicks) :
    /\ clicks[i].action = "watch"
    /\ clicks[i].pc = "done"
    /\ Len(clicks[i].log) = 3
    /\ clicks[i].log[1].op = "close"
    /\ clicks[i].log[2].op = "focus"
    /\ clicks[i].log[3].op = "postMessage"
    /\ clicks[i].notification \notin visible

----------------------------------------------------------------------------
(* Claims about the branches of the notificationclick handler *)

\* the windows at the application's origin, by their index in windows
AppWindows == { k \in 1..Len(windows) : windows[k].sameOrigin }

\* the target URL of a clicked notification: data.url, or '/' without one
TargetUrl(n) == IF n.data.kind = Null \/ n.data.url \in { Undefined, Null, "" }
                  THEN "/" ELSE n.data.url

\* C11: the matchAll callback of a watch click focuses the first window at
\* the application's origin and posts {action: showLiveMatches, data} to it,
\* opening nothing and touching no other window; with no such window it
\* opens exactly one window at <data.url>?action=watch; afterwards the
\* handler does nothing more.
C11_WatchOneWindow ==
  [][\A i \in 1..Len(clicks) :
       clicks[i].action = "watch" =>
         /\ ( clicks[i].pc = "watch" /\ clicks'[i] # clicks[i] ) =>
              /\ clicks[i].log = << CloseEffect >>
              /\ clicks'[i].pc = "done"
              /\ IF AppWindows # {}
                   THEN LET first == CHOOSE k \in AppWindows : \A j \in AppWindows : k <= j
                        IN /\ clicks'[i].log =
                                << CloseEffect,
                                   Effect("focus", first, NoUrl, NoMessage),
                                   Effect("postMessage", first, NoUrl,
                                          [action |-> "showLiveMatches",
                                           data |-> clicks[i].notification.data]) >>
                           /\ windows' = windows
                   ELSE /\ clicks'[i].log =
                             << CloseEffect,
                                Effect("openWindow", 0,
                                       << TargetUrl(clicks[i].notification), "?action=watch" >>,
                                       NoMessage) >>
                        /\ Len(windows') = Len(windows) + 1
                        /\ SubSeq(windows', 1, Len(windows)) = windows
                        /\ windows'[Len(windows')].url =
                             << TargetUrl(clicks[i].notification), "?action=watch" >>
         /\ clicks[i].pc = "done" => clicks'[i] = clicks[i]]_vars

\* with two windows open, a watch click focused and messaged the first one
C11_Witness ==
  \E i \in 1..Len(clicks) :
    /\ clicks[i].action = "watch"
    /\ clicks[i].pc = "done"
    /\ Len(windows) = 2
    /\ Len(clicks[i].log) = 3
    /\ clicks[i].log[2] = Effect("focus", 1, NoUrl, NoMessage)
    /\ clicks[i].log[3].op = "postMessage" /\ clicks[i].log[3].target = 1
    /\ clicks[i].log[3].message.data.url = "/live"

\* C12: a remind click sets exactly one timer, of 300000 ms, for the
\* reminder notification; it shows nothing and touches no window, in that
\* step or later; and the reminder comes on screen only in a step in which
\* a pending reminder timer fires, which a stopped worker no longer has.
C12_RemindSchedulesOne ==
  [][/\ ( Len(clicks') > Len(clicks) /\ clicks'[Len(clicks')].action = "remind" ) =>
          LET h == clicks'[Len(clicks')] IN
          /\ Len(timers') = Len(timers) + 1
          /\ SubSeq(timers', 1, Len(timers)) = timers
          /\ timers'[Len(timers')].delay = 5 * 60 * 1000
          /\ timers'[Len(timers')].notification = ReminderNotification
          /\ visible' = visible \ { h.notification }
          /\ windows' = windows
          /\ h.pc = "done"
          /\ \A k \in 1..Len(h.log) : h.log[k].op \in { "close", "setTimeout" }
     /\ \A i \in 1..Len(clicks) : clicks[i].action = "remind" => clicks'[i] = clicks[i]
     /\ ( ReminderNotification \notin visible /\ ReminderNotification \in visible' ) =>
          \E k \in 1..Len(timers) :
            /\ timers[k].notification = ReminderNotification
            /\ timers' = RemoveAt(timers, k)
     /\ ( timers # << >> /\ timers' = << >> /\ visible' = visible ) =>
          ( ReminderNotification \in visible' => ReminderNotification \in visible )]_vars

\* a remind click has set its timer: the clicked notification is closed,
\* no reminder is on screen and no window was opened
C12_Witness ==
  \E i \in 1..Len(clicks) :
    /\ clicks[i].action = "remind"
    /\ Len(timers) = 1
    /\ timers[1] = [delay |-> 300000, notification |-> ReminderNotification,
                    owner |-> "click"]
    /\ ReminderNotification \notin visible
    /\ clicks[i].notification \notin visible
    /\ windows = << >>

\* C13: the matchAll callback of a click on the notification body focuses
\* the first open window when any window is open and opens none; with no
\* window open it opens exactly one window at data.url ('/' by default),
\* with no query marker.
C13_BodyClickFocusOrOpen ==
  [][\A i \in 1..Len(clicks) :
       ( clicks[i].action = "" /\ clicks[i].pc = "default" /\ clicks'[i] # clicks[i] ) =>
         IF windows # << >>
           THEN /\ clicks'[i].log =
                     << CloseEffect, Effect("focus", 1, NoUrl, NoMessage) >>
                /\ windows' = windows
           ELSE /\ clicks'[i].log =
                     << CloseEffect,
                        Effect("openWindow", 0, << TargetUrl(clicks[i].notification) >>,
                               NoMessage) >>
                /\ Len(windows') = 1
                /\ windows'[1].url = << TargetUrl(clicks[i].notification) >>]_vars

----------------------------------------------------------------------------
(* Claims about the push handler *)

GenericTag == << "cricket-match-", "general" >>

\* the title the payload asks for: its own when it decodes to an object with
\* a title, the default otherwise
PayloadTitle(payload) ==
  IF payload.kind = "json" /\ payload.fields["title"] # Absent
    THEN payload.fields["title"] ELSE "CricStreamZone"

\* C14 as stated: title and tag follow the payload (the tag carries matchId
\* whenever the payload has one), and every push event whose handler has
\* finished displayed exactly one notification.
C14_TitleTagExactlyOne ==
  \A i \in 1..Len(pushes) :
    LET h == pushes[i] IN
    /\ h.notification.title = PayloadTitle(h.payload)
    /\ h.notification.tag =
         IF h.payload.kind = "json" /\ h.payload.fields["matchId"] # Absent
           THEN << "cricket-match-", h.payload.fields["matchId"] >>
           ELSE GenericTag
    /\ h.pc = "done" => h.displayed = 1

\* C14, amended: title and tag follow the payload, the tag carrying matchId
\* when the payload has a non-empty one and being generic otherwise; every
\* push event asks for exactly one display, and that display either puts
\* exactly this notification on screen or is rejected and shows nothing.
C14_TitleTagAtMostOne ==
  [][/\ Len(pushes') > Len(pushes) =>
          LET h == pushes'[Len(pushes')] IN
          /\ h.notification.title = PayloadTitle(h.payload)
          /\ h.notification.tag =
               IF /\ h.payload.kind = "json"
                  /\ h.payload.fields["matchId"] \notin { Absent, "" }
                 THEN << "cricket-match-", h.payload.fields["matchId"] >>
                 ELSE GenericTag
          /\ h.pc = "show" /\ h.displayed = 0
          /\ visible' = visible
     /\ \A i \in 1..Len(pushes) :
          pushes'[i] # pushes[i] =>
            /\ pushes[i].pc = "show" /\ pushes'[i].pc = "done"
            /\ pushes'[i].promise = "fulfilled"
            /\ pushes'[i].notification = pushes[i].notification
            /\ \/ /\ pushes'[i].displayed = 1
                  /\ visible' = Show(visible, pushes[i].notification)
               \/ /\ pushes'[i].displayed = 0
                  /\ visible' = visible]_vars

\* a push with title X and matchId 42 is on screen under its own title and
\* tag, and a push with an empty matchId finished without a display
C14_Witness ==
  /\ \E i \in 1..Len(pushes) :
       /\ pushes[i].payload.kind = "json"
       /\ pushes[i].displayed = 1
       /\ pushes[i].notification.title = "X"
       /\ pushes[i].notification.tag = << "cricket-match-", "42" >>
       /\ pushes[i].notification \in visible
  /\ \E i \in 1..Len(pushes) :
       /\ pushes[i].payload.fields["matchId"] = ""
       /\ pushes[i].notification.tag = GenericTag
       /\ pushes[i].pc = "done" /\ pushes[i].displayed = 0

\* C15: a push whose payload does not decode as JSON does not make the
\* handler fail: the notification it asks to display has the payload's text
\* as body and the default title, icon, badge, target URL, match data,
\* actions and tag; the handler's promise is never rejected, and what it
\* puts on screen is this notification.
C15_TextPayloadFallback ==
  [][/\ ( Len(pushes') > Len(pushes) /\ pushes'[Len(pushes')].payload.kind = "text" ) =>
          LET h == pushes'[Len(pushes')] IN
          /\ h.notification.body = h.payload.text
          /\ h.notification.title = "CricStreamZone"
          /\ h.notification.icon = "https://i.postimg.cc/3rPWWckN/icon-192.png"
          /\ h.notification.badge = "https://i.postimg.cc/3rPWWckN/icon-192.png"
          /\ h.notification.data.url = "/"
          /\ h.notification.data.matchData = Null
          /\ h.notification.actions = << "watch", "remind", "dismiss" >>
          /\ h.notification.tag = GenericTag
          /\ h.promise = "pending"
     /\ \A i \in 1..Len(pushes) :
          ( pushes[i].payload.kind = "text" /\ pushes'[i] # pushes[i] ) =>
            /\ pushes'[i].promise = "fulfilled"
            /\ pushes'[i].notification = pushes[i].notification
            /\ pushes'[i].displayed = 1 =>
                 /\ pushes[i].notification \in visible'
                 /\ \A n \in visible' \ visible : n = pushes[i].notification]_vars

\* the notification of a plain-text push is on screen with the text as body
C15_Witness ==
  \E i \in 1..Len(pushes) :
    /\ pushes[i].payload.kind = "text"
    /\ pushes[i].pc = "done" /\ pushes[i].displayed = 1
    /\ \E n \in visible :
         /\ n.body = "plain text"
         /\ n.title = "CricStreamZone"
         /\ n.tag = GenericTag

----------------------------------------------------------------------------
(* Claims about the message handler *)

\* event.data.action as the handler reads it: undefined for null data
MessageAction(data) == IF data.kind = Null THEN Undefined ELSE data.action

\* C16: a skipWaiting message makes one call of self.skipWaiting() and has
\* no other effect; a scheduleNotification message sets exactly one timer,
\* with the delay and the notification the page supplied, and has no other
\* effect; any other message (unknown action, no action, null data) changes
\* no bucket, timer, notification or window, and no handler promise fails.
C16_OnlyTwoActions ==
  [][Len(messages') > Len(messages) =>
       LET data == messages'[Len(messages')].data IN
       /\ messages'[Len(messages')].promise = "none"
       /\ visible' = visible /\ windows' = windows
       /\ cacheNames' = cacheNames /\ buckets' = buckets /\ worker' = worker
       /\ pushes' = pushes /\ clicks' = clicks
       /\ IF MessageAction(data) = "skipWaiting"
            THEN /\ skipWaitingCalls' = skipWaitingCalls + 1
                 /\ timers' = timers
          ELSE IF MessageAction(data) = "scheduleNotification"
            THEN /\ skipWaitingCalls' = skipWaitingCalls
                 /\ Len(timers') = Len(timers) + 1
                 /\ SubSeq(timers', 1, Len(timers)) = timers
                 /\ timers'[Len(timers')].delay = data.delay
                 /\ timers'[Len(timers')].notification.title = data.title
                 /\ timers'[Len(timers')].notification.body = data.body
                 /\ timers'[Len(timers')].notification.data.matchData = data.matchData
          ELSE /\ skipWaitingCalls' = skipWaitingCalls
               /\ timers' = timers]_vars

\* all three kinds of message have been handled: one skipWaiting call, one
\* timer of the supplied delay, and an unknown action that left no trace
C16_Witness ==
  /\ Len(messages) = 3
  /\ \E i \in 1..3 : MessageAction(messages[i].data) = "refresh"
  /\ \E i \in 1..3 : MessageAction(messages[i].data) = "skipWaiting"
  /\ skipWaitingCalls = 1
  /\ Len(timers) = 1
  /\ timers[1].delay = 60000
  /\ timers[1].notification.title = "Match starts"

----------------------------------------------------------------------------
(* Claims about the buckets the fetch handler reads and the handlers write *)

\* C17: a response the fetch handler takes from the cache, on a static hit
\* or as the fallback of a dynamic request, is the entry of the bucket named
\* CACHE_NAME; an entry held only by a bucket of another name is not served.
C17_ServedFromCurrentBucket ==
  [][\A i \in 1..Len(fetches) :
       ( /\ fetches[i].pc \in { "match", "fallback" }
         /\ fetches'[i].settled = "response"
         /\ fetches'[i].netState \in { "none", "rejected" } ) =>
           /\ buckets[CACHE_NAME][fetches[i].url] # NoResponse
           /\ fetches'[i].resp = buckets[CACHE_NAME][fetches[i].url]]_vars

\* C18: no step of the install, activate, fetch and sync handlers creates a
\* bucket of another name than CACHE_NAME or adds or changes an entry in
\* one, and no step removes the CACHE_NAME bucket or an entry it holds.
C18_WritesOnlyCurrentBucket ==
  [][/\ \A n \in BucketNames \ { CACHE_NAME } :
          /\ n \in Range(cacheNames') => n \in Range(cacheNames)
          /\ \A k \in Keys :
               buckets'[n][k] # buckets[n][k] => buckets'[n][k] = NoResponse
     /\ CACHE_NAME \in Range(cacheNames) => CACHE_NAME \in Range(cacheNames')
     /\ \A k \in Keys :
          buckets[CACHE_NAME][k] # NoResponse => buckets'[CACHE_NAME][k] # NoResponse]_vars

\* install seeded the current bucket next to two older ones, activate
\* removed both of those, and a fetch handler and the sync handler have
\* each written an entry that the manifest does not list
C18_Witness ==
  /\ install.fetched
  /\ activate.deleted = { "cricstreamzone-v1.0.4", "cricstreamzone-v1.0.5" }
  /\ cacheNames = << CACHE_NAME >>
  /\ buckets[CACHE_NAME]["/"] # NoResponse
  /\ buckets[CACHE_NAME][MatchesDataKey] # NoResponse
  /\ \E i \in 1..Len(fetches) :
       /\ fetches[i].url \notin Range(urlsToCache)
       /\ buckets[CACHE_NAME][fetches[i].url] # NoResponse

\* C19: for a dynamic request a network response of any status and type
\* is handed to the bucket write, without the filter of the cache-first
\* branch, and that write stores it; a later request for the same URL whose
\* network fetch fails is answered with the stored response even when its
\* status is not 200.
C19_DynamicStoresAnyStatus ==
  [][\A i \in 1..Len(fetches) :
       fetches[i].url \in DynamicURLs =>
         /\ ( fetches[i].pc = "net" /\ fetches'[i].netState = "resolved" ) =>
              /\ fetches'[i].pc = "put"
              /\ fetches'[i].net \in NetResponses(fetches[i].url)
         /\ ( fetches[i].pc = "put" /\ fetches'[i].pc = "done" ) =>
              buckets'[CACHE_NAME][fetches[i].url] = fetches[i].net
         /\ ( /\ fetches[i].pc = "fallback" /\ fetches'[i] # fetches[i]
              /\ buckets[CACHE_NAME][fetches[i].url] # NoResponse
              /\ buckets[CACHE_NAME][fetches[i].url].status # 200 ) =>
                /\ fetches'[i].settled = "response"
                /\ fetches'[i].resp = buckets[CACHE_NAME][fetches[i].url]]_vars

\* a dynamic request stored the 404 the network gave it, and a later request
\* for the same URL, with the network down, was answered with that 404
C19_Witness ==
  \E i, j \in 1..Len(fetches) :
    /\ i < j
    /\ fetches[i].url \in DynamicURLs
    /\ fetches[j].url = fetches[i].url
    /\ fetches[i].netState = "resolved" /\ fetches[i].wrote.status = 404
    /\ fetches[j].netState = "rejected" /\ fetches[j].pc = "done"
    /\ fetches[j].settled = "response"
    /\ fetches[j].resp.status = 404

\* C20: a static request that missed the cache and whose network fetch
\* fails is not answered: the respondWith promise rejects, no response is
\* delivered, no write is started and the buckets stay as they were.
C20_StaticFailurePropagates ==
  [][\A i \in 1..Len(fetches) :
       fetches[i].url \in StaticURLs =>
         /\ ( fetches[i].pc = "net" /\ fetches'[i].netState = "rejected" ) =>
              /\ fetches[i].settled = "pending"
              /\ fetches'[i].settled = "rejected"
              /\ fetches'[i].resp = NoResponse
              /\ fetches'[i].wrote = NoResponse
              /\ fetches'[i].pc = "done"
              /\ buckets' = buckets /\ cacheNames' = cacheNames
         /\ fetches[i].settled = "rejected" => fetches'[i] = fetches[i]]_vars

\* a request for '/' found nothing stored, the network was down, and the
\* requester got the failure; the bucket still has no entry for '/'
C20_Witness ==
  \E i \in 1..Len(fetches) :
    /\ fetches[i].url = "/"
    /\ fetches[i].pc = "done"
    /\ fetches[i].netState = "rejected"
    /\ fetches[i].settled = "rejected"
    /\ buckets[CACHE_NAME]["/"] = NoResponse

====
